---- MODULE Spec2Model ----
(***************************************************************************)
(* Smart shower controller: the flow/temperature controller                *)
(* (core/water_control.py), the safety monitor (core/safety_monitor.py)   *)
(* and the session coordinator (main.py), with the audio and notification  *)
(* collaborators reduced to the points where they suspend or fail.         *)
(*                                                                         *)
(* Units.  Temperatures are integers in units of 0.1/10^MaxWaterTicks     *)
(* degrees, so that the control loop's "+= diff * 0.1" is exact for        *)
(* MaxWaterTicks iterations.  Flow rates are in 0.1 L/min, pressure in     *)
(* 0.1 bar, the mixer position in 0.01.  Time is in whole clock units.     *)
(***************************************************************************)
EXTENDS Integers, Sequences, FiniteSets, TLC

VARIABLES
    water,      \* WaterController fields
    safety,     \* SafetyMonitor fields (door_timer is the timer task)
    os,         \* SmartShowerOS fields
    audio,      \* AudioManager fields
    tasks,      \* suspended coroutines: the safety loop and request handlers
    wticks,     \* iterations of the flow control loop taken so far
    hist,       \* history: when the valves were opened, when the door was
                \* read closed, whether it was opened again in the session
    op,         \* the operation the last step performed
    fired       \* the callbacks and warnings of the last step, in order

vars == <<water, safety, os, audio, tasks, wticks, hist, op, fired>>

None == "none"
NoTime == -999              \* a timestamp field holding Python's None
NoTemperature == -999999    \* a request that carries no temperature

Max2(a, b) == IF a >= b THEN a ELSE b
Min2(a, b) == IF a <= b THEN a ELSE b
Abs(a) == IF a >= 0 THEN a ELSE -a

----------------------------------------------------------------------------
(* Bounds *)

MaxWaterTicks == 3      \* flow control loop iterations (exact arithmetic)
DoorTimeout == 1        \* safety.door_timeout, scaled from 600 s
MaxShowerDuration == 2  \* safety.max_shower_duration, scaled from 1800 s

\* Timestamps are kept relative to the current clock value: time.time() is
\* 0, a timestamp taken t units ago is -t.  The code only compares the age
\* of a timestamp with the two time-outs, so ages beyond both are kept at
\* the oldest one that still exceeds them.
now == 0
Oldest == 0 - (Max2(DoorTimeout, MaxShowerDuration) + 1)

Tenth == 10 ^ MaxWaterTicks     \* 0.1 degree
Deg(tenths) == tenths * Tenth


\* water_control section of the loaded settings, in tenths of a degree:
\* the shipped defaults, a default target just above the maximum, and a
\* maximum lowered below the default target.
Configs ==
    { [default_temperature |-> 380, max_temperature |-> 450, min_temperature |-> 200],
      [default_temperature |-> 453, max_temperature |-> 450, min_temperature |-> 200],
      [default_temperature |-> 380, max_temperature |-> 230, min_temperature |-> 200] }

DefaultConfig ==
    [default_temperature |-> 380, max_temperature |-> 450, min_temperature |-> 200]

\* requested temperatures (tenths of a degree); None is a request without one
Temps == {-50, 201, 380, 500}

\* requested flow rates (0.1 L/min)
FlowRates == {-10, 50, 200}

----------------------------------------------------------------------------
(* WaterController *)

WaterInit(cfg) ==
    [ current_temperature  |-> Deg(200),
      target_temperature   |-> Deg(cfg.default_temperature),
      max_temperature      |-> Deg(cfg.max_temperature),
      min_temperature      |-> Deg(cfg.min_temperature),
      flow_rate            |-> 0,
      pressure             |-> 0,
      valve_state          |-> "closed",
      flow_state           |-> "stopped",
      hot_valve_open       |-> FALSE,
      cold_valve_open      |-> FALSE,
      mixer_valve_position |-> 50 ]

Fire(s, ev) == [s EXCEPT !.fired = Append(@, ev)]

\* max(self.min_temperature, min(self.max_temperature, temperature))
clamp_temperature(w, t) == Max2(w.min_temperature, Min2(w.max_temperature, t))

\* valves opened with the mixer at 50 where the unit is 0.01 of full scale
_open_valves_percent(s) ==
    [s EXCEPT !.water.hot_valve_open = TRUE,
              !.water.cold_valve_open = TRUE,
              !.water.mixer_valve_position = 5000,
              !.water.valve_state = "open"]

_open_valves(s) ==
    [s EXCEPT !.water.hot_valve_open = TRUE,
              !.water.cold_valve_open = TRUE,
              !.water.mixer_valve_position = 50,
              !.water.valve_state = "open"]

_close_valves(s) ==
    [s EXCEPT !.water.hot_valve_open = FALSE,
              !.water.cold_valve_open = FALSE,
              !.water.mixer_valve_position = 0,
              !.water.valve_state = "closed"]

start_flow(s, temperature) ==
    LET s1 == IF temperature # NoTemperature
              THEN [s EXCEPT !.water.target_temperature =
                                 clamp_temperature(s.water, temperature)]
              ELSE s
        s2 == _open_valves(s1)
        s3 == [s2 EXCEPT !.water.flow_state = "adjusting",
                         !.water.flow_rate = 80]
    IN  Fire(s3, "on_flow_start")

\* a stop that closes the valves and forgets the flow state
stop_flow_keeps_flow_state(s) ==
    LET s1 == _close_valves(s)
        s2 == [s1 EXCEPT !.water.flow_rate = 0]
    IN  Fire(s2, "on_flow_stop")

stop_flow(s) ==
    LET s1 == _close_valves(s)
        s2 == [s1 EXCEPT !.water.flow_state = "stopped",
                         !.water.flow_rate = 0]
    IN  Fire(s2, "on_flow_stop")

set_temperature(s, temperature) ==
    LET t == clamp_temperature(s.water, temperature)
    IN  IF Abs(t - s.water.target_temperature) > Deg(5)
        THEN [s EXCEPT !.water.target_temperature = t]
        ELSE s

set_flow_rate(s, flow_rate) ==
    [s EXCEPT !.water.flow_rate = Max2(0, Min2(150, flow_rate))]

water_emergency_stop(s) ==
    LET s1 == [s EXCEPT !.water.hot_valve_open = FALSE,
                        !.water.cold_valve_open = FALSE,
                        !.water.mixer_valve_position = 0,
                        !.water.valve_state = "closed",
                        !.water.flow_state = "stopped",
                        !.water.flow_rate = 0]
    IN  Fire(s1, "on_flow_stop")

\* a sensor simulation whose gain is eleven tenths of the error
water_read_sensors_overshoot(s) ==
    LET temp_diff == s.water.target_temperature - s.water.current_temperature
    IN  IF s.water.flow_state # "stopped" /\ Abs(temp_diff) > Deg(1)
        THEN Fire([s EXCEPT !.water.current_temperature =
                                @ + (temp_diff * 11) \div 10],
                  "on_temperature_change")
        ELSE s

\* the simulated temperature sensor: one tenth of the remaining error per
\* iteration while water is flowing and the error exceeds 0.1 degree
water_read_sensors(s) ==
    LET temp_diff == s.water.target_temperature - s.water.current_temperature
    IN  IF s.water.flow_state # "stopped" /\ Abs(temp_diff) > Deg(1)
        THEN Fire([s EXCEPT !.water.current_temperature = @ + temp_diff \div 10],
                  "on_temperature_change")
        ELSE s

_adjust_temperature(s) ==
    LET temp_diff == s.water.target_temperature - s.water.current_temperature
    IN  IF Abs(temp_diff) > Deg(5)
        THEN IF temp_diff > 0
             THEN [s EXCEPT !.water.mixer_valve_position = Min2(100, @ + 1)]
             ELSE [s EXCEPT !.water.mixer_valve_position = Max2(0, @ - 1)]
        ELSE s

_check_safety(s) ==
    LET s1 == IF s.water.current_temperature > s.water.max_temperature
              THEN stop_flow(s) ELSE s
        s2 == IF s1.water.pressure > 50 THEN stop_flow(s1) ELSE s1
    IN  s2

\* one iteration of WaterController._control_loop
water_control_loop(s) ==
    LET s1 == water_read_sensors(s)
        s2 == IF s1.water.flow_state = "flowing"
              THEN _adjust_temperature(s1) ELSE s1
    IN  _check_safety(s2)

----------------------------------------------------------------------------
(* SafetyMonitor *)

\* self.door_timer: no task, a task sleeping until deadline, a task that
\* has begun its time-out handling (running, or waiting with continuation
\* k), or a finished task
NoTimer == [state |-> "none", deadline |-> 0, k |-> <<>>]

SafetyInit ==
    [ safety_state             |-> "safe",
      door_state               |-> "unknown",
      leak_detected            |-> FALSE,
      emergency_stop_active    |-> FALSE,
      door_timer               |-> NoTimer,
      shower_start_time        |-> NoTime,
      door_sensor_active       |-> FALSE,
      leak_sensor_active       |-> FALSE,
      emergency_button_pressed |-> FALSE,
      is_running               |-> TRUE ]

\* a cancel that leaves the task in the event loop
cancel_door_timer_forgets(s) == s

\* self.door_timer.cancel(): a task that has not finished ends at the
\* await it is suspended in, or will next suspend in, and never runs
\* again; cancelling a finished task does nothing.  tasks.timers counts the
\* door-timer tasks of the event loop that are neither finished nor
\* cancelled.
cancel_door_timer(s) ==
    IF s.safety.door_timer.state \in {"sleeping", "running", "waiting"}
    THEN [s EXCEPT !.tasks.timers = @ - 1]
    ELSE s

\* asyncio.create_task(self._door_timeout_handler())
create_door_timer(s) ==
    [s EXCEPT !.tasks.timers = @ + 1,
              !.safety.door_timer =
                  [state |-> "sleeping", deadline |-> s.now + DoorTimeout,
                   k |-> <<>>]]

\* a door timer that is left alone while it is still sleeping
start_door_timer_keep(s) ==
    IF s.safety.door_timer.state = "sleeping" THEN s
    ELSE create_door_timer(cancel_door_timer(s))

\* cancels the previous timer task and creates a task that sleeps for
\* door_timeout
start_door_timer(s) == create_door_timer(cancel_door_timer(s))

reset_door_timer(s) == start_door_timer(s)

start_shower_session(s) ==
    start_door_timer([s EXCEPT !.safety.shower_start_time = s.now,
                               !.safety.safety_state = "safe"])

\* a stop that leaves the door timer task alone
stop_shower_session_keeps_timer(s) ==
    [s EXCEPT !.safety.shower_start_time = NoTime,
              !.safety.safety_state = "safe"]

stop_shower_session(s) ==
    [cancel_door_timer(s) EXCEPT !.safety.door_timer = NoTimer,
              !.safety.shower_start_time = NoTime,
              !.safety.safety_state = "safe"]

\* SafetyMonitor.emergency_stop up to the call of the registered callback
\* SmartShowerOS._on_emergency_stop, whose stop_shower and notification
\* follow as continuation (the callback's flag is read by nothing but the
\* loop that clears it, and is left out)
emergency_stop(s, reason) ==
    LET s1 == Fire(s, reason)
        s2 == [s1 EXCEPT !.safety.emergency_stop_active = TRUE,
                         !.safety.safety_state = "emergency"]
    IN  Fire(s2, "on_emergency_stop")

\* SafetyMonitor._read_sensors, door part, with the registered callbacks
\* _on_door_open (reset_door_timer) and _on_door_close (start_door_timer)
read_door(s) ==
    LET old_door_state == s.safety.door_state
        new_door_state == IF s.safety.door_sensor_active THEN "open" ELSE "closed"
        s1 == [s EXCEPT !.safety.door_state = new_door_state]
    IN  IF old_door_state # new_door_state
        THEN IF new_door_state = "open"
             THEN reset_door_timer(
                      Fire([s1 EXCEPT !.hist.close_edge = NoTime,
                                      !.hist.reopened =
                                          @ \/ s.hist.close_edge # NoTime],
                           "on_door_open"))
             ELSE start_door_timer(
                      Fire([s1 EXCEPT !.hist.close_edge =
                                          IF "close_edge" \in s.hist.kept
                                          THEN s.now ELSE NoTime],
                           "on_door_close"))
        ELSE s1

\* the leak branch of _read_sensors fires on_leak_detected
leak_triggers(s) == s.safety.leak_sensor_active /\ ~s.safety.leak_detected

\* a duration check that only counts while the door is closed
duration_exceeded_door_closed(s) ==
    /\ s.safety.shower_start_time # NoTime
    /\ s.safety.door_state = "closed"
    /\ s.now - s.safety.shower_start_time > MaxShowerDuration

\* the duration branch of _check_safety_conditions calls emergency_stop
duration_exceeded(s) ==
    /\ s.safety.shower_start_time # NoTime
    /\ s.now - s.safety.shower_start_time > MaxShowerDuration

\* a door check that shuts the valves itself while the door stands open
check_leak_and_door_shuts_valves(s) ==
    LET s1 == IF s.safety.leak_detected
              THEN [s EXCEPT !.safety.safety_state = "danger"] ELSE s
    IN  IF s1.safety.door_state = "open" /\ s1.safety.shower_start_time # NoTime
        THEN reset_door_timer(_close_valves(s1))
        ELSE s1

\* _check_safety_conditions after the duration check
check_leak_and_door(s) ==
    LET s1 == IF s.safety.leak_detected
              THEN [s EXCEPT !.safety.safety_state = "danger"] ELSE s
    IN  IF s1.safety.door_state = "open" /\ s1.safety.shower_start_time # NoTime
        THEN reset_door_timer(s1)
        ELSE s1

\* a state update that takes every closed door during a session for a
\* completed timer
_update_safety_state_any_timer(s) ==
    [s EXCEPT !.safety.safety_state =
        IF s.safety.emergency_stop_active THEN "emergency"
        ELSE IF s.safety.leak_detected THEN "danger"
        ELSE IF s.safety.door_state = "closed" /\ s.safety.shower_start_time # NoTime
             THEN "warning"
        ELSE "safe"]

_update_safety_state(s) ==
    [s EXCEPT !.safety.safety_state =
        IF s.safety.emergency_stop_active THEN "emergency"
        ELSE IF s.safety.leak_detected THEN "danger"
        ELSE IF s.safety.door_state = "closed" /\ s.safety.shower_start_time # NoTime
             THEN IF s.safety.door_timer.state = "done" THEN "warning" ELSE "safe"
        ELSE "safe"]

----------------------------------------------------------------------------
(* AudioManager, as far as the coordinator uses it *)

AudioInit == [playback_process |-> FALSE, playback_state |-> "stopped"]

\* stop_playback after the wait for the player process, if there was one
stop_playback_rest(s) ==
    Fire([s EXCEPT !.audio.playback_process = FALSE,
                   !.audio.playback_state = "stopped"], "on_playback_stop")

\* start_playback of a local file once the player process has been spawned
start_playback_rest(s) ==
    Fire([s EXCEPT !.audio.playback_process = TRUE,
                   !.audio.playback_state = "loading"], "on_playback_start")

----------------------------------------------------------------------------
(* Coroutines.  A coroutine runs without interruption up to an await that  *)
(* really suspends: the sleeps of the loops and of the door timer, the     *)
(* wait for the player process in stop_playback, and the spawning of the  *)
(* player in start_playback.  What remains to be run after a suspension is *)
(* kept as a sequence of labels.                                           *)

OsInit == [shower_active |-> FALSE, is_running |-> TRUE]

TasksInit ==
    [loop |-> <<>>, reqs |-> <<>>, down |-> <<>>, ticked |-> FALSE, timers |-> 0]

EmergencyCascade == <<"stop_shower", "notify_emergency">>

TickSteps ==
    <<"read_door", "read_leak", "read_button",
      "check_duration", "check_leak_and_door", "update_safety_state">>

\* SmartShowerOS.shutdown: the coordinator's own part, then the components
\* in the order in which it shuts them down; the two servers go last
ShutdownSteps ==
    <<"shutdown", "water_shutdown", "audio_shutdown", "safety_shutdown",
      "servers_shutdown">>

Done(s) == [s |-> s, push |-> <<>>, wait |-> FALSE]
Call(s, k) == [s |-> s, push |-> k, wait |-> FALSE]
Await(s, k) == [s |-> s, push |-> k, wait |-> TRUE]

\* one label: the state after it, the labels it calls, whether it suspends
Step(s, label) ==
    CASE label = "read_door" -> Done(read_door(s))
      [] label = "read_leak" ->
            IF leak_triggers(s)
            THEN Call(Fire([s EXCEPT !.safety.leak_detected = TRUE],
                           "on_leak_detected"),
                      <<"stop_shower", "notify_leak">>)
            ELSE Done(s)
      [] label = "read_button" ->
            IF s.safety.emergency_button_pressed
            THEN Call(emergency_stop(s, "Emergency button pressed"),
                      EmergencyCascade)
            ELSE Done(s)
      [] label = "check_duration" ->
            IF duration_exceeded(s)
            THEN Call(emergency_stop(s, "Maximum shower duration exceeded"),
                      EmergencyCascade)
            ELSE Done(s)
      [] label = "check_leak_and_door" -> Done(check_leak_and_door(s))
      [] label = "update_safety_state" -> Done(_update_safety_state(s))
      [] label = "door_timeout" ->
            IF s.safety.door_state = "closed"
            THEN Call(emergency_stop(s, "Door timeout - Auto-shutoff"),
                      EmergencyCascade)
            ELSE Done(s)
      [] label = "web_emergency_stop" ->
            Call(emergency_stop(s, "Web interface emergency stop"),
                 EmergencyCascade)
      \* SmartShowerOS.stop_shower up to the wait inside stop_playback
      [] label = "stop_shower" ->
            LET s1 == stop_flow(s)
            IN  IF s1.audio.playback_process
                THEN Await(s1, <<"stop_playback_rest", "stop_shower_rest">>)
                ELSE Call(s1, <<"stop_playback_rest", "stop_shower_rest">>)
      [] label = "stop_playback_rest" -> Done(stop_playback_rest(s))
      [] label = "stop_shower_rest" ->
            Done([stop_shower_session(s) EXCEPT !.os.shower_active = FALSE])
      [] label = "start_playback_rest" -> Done(start_playback_rest(s))
      \* SmartShowerOS.start_shower after the audio step
      [] label = "start_session" ->
            Done([start_shower_session(s) EXCEPT !.os.shower_active = TRUE])
      [] label = "notify_leak" -> Done(Fire(s, "notify: Water leak detected!"))
      [] label = "notify_emergency" ->
            Done(Fire(s, "notify: Emergency stop activated!"))
      [] label = "shutdown" ->
            LET s1 == [s EXCEPT !.os.is_running = FALSE]
            IN  IF s.os.shower_active THEN Call(s1, <<"stop_shower">>)
                ELSE Done(s1)
      \* WaterController.shutdown: stop_flow, then the control task is
      \* cancelled and awaited
      [] label = "water_shutdown" -> Call(stop_flow(s), <<"await_control_task">>)
      \* AudioManager.shutdown: stop_playback, then its control task
      [] label = "audio_shutdown" ->
            IF s.audio.playback_process
            THEN Await(s, <<"stop_playback_rest", "await_control_task">>)
            ELSE Call(s, <<"stop_playback_rest", "await_control_task">>)
      \* SafetyMonitor.shutdown: the door timer task and the safety loop are
      \* cancelled, whatever they are waiting in; the timer task stays
      \* referenced, and a cancelled task counts as done
      [] label = "safety_shutdown" ->
            LET s1 == cancel_door_timer(s)
            IN  Call([s1 EXCEPT !.safety.is_running = FALSE,
                                !.safety.door_timer =
                                    IF s.safety.door_timer = NoTimer THEN NoTimer
                                    ELSE [state |-> "done", deadline |-> 0,
                                          k |-> <<>>],
                                !.tasks.loop = <<>>],
                     <<"await_control_task">>)
      \* awaiting a task that has just been cancelled yields to the event
      \* loop until that task has taken the cancellation
      [] label = "await_control_task" -> Await(s, <<>>)
      \* MobileAPI.shutdown and WebServer.shutdown: no request comes in after
      [] label = "servers_shutdown" -> Done(s)

\* the coroutine returns
Finish(s, task) ==
    CASE task = "loop" -> [s EXCEPT !.tasks.loop = <<>>, !.tasks.ticked = TRUE]
      [] task = "timer" ->
            IF s.safety.door_timer.state = "running"
            THEN [s EXCEPT !.tasks.timers = @ - 1,
                           !.safety.door_timer =
                               [state |-> "done", deadline |-> 0, k |-> <<>>]]
            ELSE s
      [] task = "req" -> s
      [] task = "down" -> s

\* the coroutine suspends with continuation k
Suspend(s, task, k) ==
    CASE task = "loop" -> [s EXCEPT !.tasks.loop = k]
      [] task = "timer" ->
            [s EXCEPT !.safety.door_timer =
                          [state |-> "waiting", deadline |-> 0, k |-> k]]
      [] task = "req" -> [s EXCEPT !.tasks.reqs = Append(@, k)]
      [] task = "down" -> [s EXCEPT !.tasks.down = k]

RECURSIVE Run(_, _, _)
Run(s, task, k) ==
    IF k = <<>> THEN Finish(s, task)
    ELSE LET r == Step(s, Head(k))
         IN  IF r.wait THEN Suspend(r.s, task, r.push \o Tail(k))
             ELSE Run(r.s, task, r.push \o Tail(k))

----------------------------------------------------------------------------
(* State and steps *)

MaxRequests == 1        \* request handlers suspended at the same time

\* a temperature that is not a number: the start request's JSON body may
\* carry any value, and the handler passes it on as it is
NonNumeric == -888888

\* temperatures a start request carries (tenths of a degree)
SessionTemps == {500, NonNumeric}

\* audio sources a start request carries: none, a local file that is
\* there, a local file that is not
AudioSources == {None, "local:song.mp3", "local:missing.mp3"}

\* what a behaviour keeps of its history: when the valves were opened,
\* when the door was read closed and whether it had been opened again
HistFields == {"flow_began", "close_edge", "reopened"}

HistInit ==
    [ kept |-> HistFields,
      flow_began |-> NoTime, close_edge |-> NoTime, reopened |-> FALSE ]

\* A step starts from the history that is still meaningful: when the valves
\* were opened is forgotten once the flow has stopped; when the door was
\* read closed, once it is open or the safety session has ended; that the
\* door was opened again after a closure, once the safety session has ended.
HistNow ==
    [ kept       |-> hist.kept,
      flow_began |-> IF water.flow_state = "stopped"
                        \/ "flow_began" \notin hist.kept
                     THEN NoTime ELSE hist.flow_began,
      close_edge |-> IF safety.door_state = "closed"
                        /\ safety.shower_start_time # NoTime
                        /\ "close_edge" \in hist.kept
                     THEN hist.close_edge ELSE NoTime,
      reopened   |-> /\ safety.shower_start_time # NoTime
                     /\ "reopened" \in hist.kept
                     /\ hist.reopened ]

Cur ==
    [ water |-> water, safety |-> safety, os |-> os, audio |-> audio,
      tasks |-> tasks, now |-> now, hist |-> HistNow, fired |-> <<>> ]

Install(s, name) ==
    /\ water' = s.water
    /\ safety' = s.safety
    /\ os' = s.os
    /\ audio' = s.audio
    /\ tasks' = s.tasks
    /\ hist' = s.hist
    /\ fired' = s.fired
    /\ op' = name

RemoveAt(seq, i) == SubSeq(seq, 1, i - 1) \o SubSeq(seq, i + 1, Len(seq))

Init ==
    /\ water = WaterInit(DefaultConfig)
    /\ safety = SafetyInit
    /\ os = OsInit
    /\ audio = AudioInit
    /\ tasks = TasksInit
    /\ wticks = 0
    /\ hist = HistInit
    /\ op = "init"
    /\ fired = <<>>

\* one iteration of SafetyMonitor._control_loop, up to its sleep or up to
\* the first suspension inside a callback
SafetyTick ==
    /\ tasks.loop = <<>>
    /\ Install(Run(Cur, "loop", TickSteps), "safety_tick")
    /\ UNCHANGED wticks

\* the player process has exited (or was killed after the 5 s time-out):
\* the safety loop continues the callback it was suspended in
LoopResumes ==
    /\ tasks.loop # <<>>
    /\ Install(Run(Cur, "loop", tasks.loop), "loop_resume")
    /\ UNCHANGED wticks

\* _door_timeout_handler after its sleep.  The sleep is long against the
\* period of the safety loop, which has read the sensors at the current
\* time before the timer task wakes up.
DoorTimerExpires ==
    /\ safety.door_timer.state = "sleeping"
    /\ now >= safety.door_timer.deadline
    /\ tasks.ticked \/ tasks.loop # <<>>
    /\ Install(Run([Cur EXCEPT !.safety.door_timer.state = "running"],
                   "timer", <<"door_timeout">>), "door_timeout")
    /\ UNCHANGED wticks

\* the door timer task continues after the wait for the player process
DoorTimerResumes ==
    /\ safety.door_timer.state = "waiting"
    /\ Install(Run([Cur EXCEPT !.safety.door_timer.state = "running",
                               !.safety.door_timer.k = <<>>],
                   "timer", safety.door_timer.k), "timer_resume")
    /\ UNCHANGED wticks

\* an except clause that goes on to the safety session
start_shower_except_goes_on(s, e) ==
    Run(Fire(s, e), "req", <<"start_session">>)

\* the except clause of SmartShowerOS.start_shower: the error of the failed
\* step is logged and raised again, and no later step runs
start_shower_except(s, e) == Fire(s, e)

\* SmartShowerOS.start_shower(temperature, audio_source).  With a
\* temperature that is not a number, start_flow raises in the comparison
\* that clamps the target, before it has changed anything.
StartShower(temperature, audio_source) ==
    /\ Len(tasks.reqs) < MaxRequests
    /\ IF temperature = NonNumeric
       THEN Install(start_shower_except(Cur, "raise TypeError"), "start_shower")
       ELSE
       LET s0 == start_flow(Cur, Deg(temperature))
           s1 == IF water.flow_state = "stopped" /\ "flow_began" \in hist.kept
                 THEN [s0 EXCEPT !.hist.flow_began = now] ELSE s0
       IN  CASE audio_source = None ->
                    Install(Run(s1, "req", <<"start_session">>), "start_shower")
             [] audio_source = "local:missing.mp3" ->
                    Install(start_shower_except(s1, "raise FileNotFoundError"),
                            "start_shower")
             [] audio_source = "local:song.mp3" ->
                    Install(Suspend(s1, "req",
                                    <<"start_playback_rest", "start_session">>),
                            "start_shower")
    /\ UNCHANGED wticks

\* the player process of a suspended start_shower has been spawned
PlayerSpawned ==
    /\ \E i \in 1..Len(tasks.reqs) :
          /\ Head(tasks.reqs[i]) = "start_playback_rest"
          /\ Install(Run([Cur EXCEPT !.tasks.reqs = RemoveAt(@, i)],
                         "req", tasks.reqs[i]), "start_shower_resume")
    /\ UNCHANGED wticks

\* spawning the player process fails: start_playback raises and
\* start_shower re-raises
PlayerSpawnFails ==
    /\ \E i \in 1..Len(tasks.reqs) :
          /\ Head(tasks.reqs[i]) = "start_playback_rest"
          /\ Install(start_shower_except(
                         [Cur EXCEPT !.tasks.reqs = RemoveAt(@, i)],
                         "raise OSError"), "start_shower_fail")
    /\ UNCHANGED wticks

\* SmartShowerOS.stop_shower, from a stop request
StopShower ==
    /\ Len(tasks.reqs) < MaxRequests
    /\ Install(Run(Cur, "req", <<"stop_shower">>), "stop_shower")
    /\ UNCHANGED wticks

\* SafetyMonitor.emergency_stop, from the web interface
EmergencyStop ==
    /\ Len(tasks.reqs) < MaxRequests
    /\ Install(Run(Cur, "req", <<"web_emergency_stop">>), "emergency_stop")
    /\ UNCHANGED wticks

\* a request handler continues after the wait for the player process
RequestResumes ==
    /\ \E i \in 1..Len(tasks.reqs) :
          /\ Head(tasks.reqs[i]) = "stop_playback_rest"
          /\ Install(Run([Cur EXCEPT !.tasks.reqs = RemoveAt(@, i)],
                         "req", tasks.reqs[i]), "request_resume")
    /\ UNCHANGED wticks

\* the simulated sensors change: simulate_door_open, simulate_door_close,
\* simulate_leak, simulate_emergency_button (press, then release), and
\* test_sensors for the leak sensor going back to inactive
SensorOps ==
    { [name |-> "simulate_door_open",  field |-> "door_sensor_active",       to |-> TRUE],
      [name |-> "simulate_door_close", field |-> "door_sensor_active",       to |-> FALSE],
      [name |-> "simulate_leak",       field |-> "leak_sensor_active",       to |-> TRUE],
      [name |-> "leak_sensor_clears",  field |-> "leak_sensor_active",       to |-> FALSE],
      [name |-> "button_pressed",      field |-> "emergency_button_pressed", to |-> TRUE],
      [name |-> "button_released",     field |-> "emergency_button_pressed", to |-> FALSE] }

SensorChanges ==
    /\ \E c \in SensorOps :
          /\ safety[c.field] # c.to
          /\ Install([Cur EXCEPT !.safety[c.field] = c.to],
                     IF c.name = "simulate_leak" THEN c.name ELSE "sensor")
    /\ UNCHANGED wticks

\* some task waits for the player process to be spawned or to exit
WaitsForPlayer ==
    \/ tasks.loop # <<>>
    \/ safety.door_timer.state = "waiting"
    \/ tasks.reqs # <<>>

\* a timestamp, one clock unit later
Earlier(t) == IF t = NoTime THEN NoTime ELSE Max2(t - 1, Oldest)

\* The clock advances.  The safety loop (period 0.1 s) has run at the
\* current time, a door timer that is due has fired, and no task still
\* waits for the player process (its spawning, or at most 5 s for its
\* exit): all of these are short against the clock unit.
AdvanceTime ==
    /\ tasks.ticked
    /\ ~WaitsForPlayer
    /\ ~(safety.door_timer.state = "sleeping" /\ safety.door_timer.deadline <= now)
    /\ safety' = [safety EXCEPT
                     !.shower_start_time = Earlier(@),
                     !.door_timer.deadline =
                         IF safety.door_timer.state = "sleeping" THEN @ - 1 ELSE @]
    /\ hist' = [HistNow EXCEPT !.flow_began = Earlier(@),
                               !.close_edge = Earlier(@)]
    /\ tasks' = [tasks EXCEPT !.ticked = FALSE]
    /\ op' = "advance_time"
    /\ fired' = <<>>
    /\ UNCHANGED <<water, os, audio, wticks>>

Next ==
    \/ SafetyTick
    \/ LoopResumes
    \/ DoorTimerExpires
    \/ DoorTimerResumes
    \/ \E t \in SessionTemps, a \in AudioSources : StartShower(t, a)
    \/ PlayerSpawned
    \/ PlayerSpawnFails
    \/ StopShower
    \/ EmergencyStop
    \/ RequestResumes
    \/ SensorChanges
    \/ AdvanceTime

Spec == Init /\ [][Next]_vars

\* The same program with less of its history kept: the history is written
\* by the steps and read by none of them, so the behaviours of the program
\* are the same.  SpecDoor keeps the door history only, SpecPlain none.
InitDoor ==
    /\ water = WaterInit(DefaultConfig)
    /\ safety = SafetyInit
    /\ os = OsInit
    /\ audio = AudioInit
    /\ tasks = TasksInit
    /\ wticks = 0
    /\ hist = [HistInit EXCEPT !.kept = {"close_edge", "reopened"}]
    /\ op = "init"
    /\ fired = <<>>

SpecDoor == InitDoor /\ [][Next]_vars

InitPlain ==
    /\ water = WaterInit(DefaultConfig)
    /\ safety = SafetyInit
    /\ os = OsInit
    /\ audio = AudioInit
    /\ tasks = TasksInit
    /\ wticks = 0
    /\ hist = [HistInit EXCEPT !.kept = {}]
    /\ op = "init"
    /\ fired = <<>>

SpecPlain == InitPlain /\ [][Next]_vars

----------------------------------------------------------------------------
(* The flow controller on its own, for every loaded configuration *)

InitWater ==
    /\ \E cfg \in Configs : water = WaterInit(cfg)
    /\ safety = SafetyInit
    /\ os = OsInit
    /\ audio = AudioInit
    /\ tasks = TasksInit
    /\ wticks = 0
    /\ hist = HistInit
    /\ op = "init"
    /\ fired = <<>>

WStartFlow(temperature) ==
    /\ Install(start_flow(Cur, Deg(temperature)), "start_flow")
    /\ UNCHANGED wticks

\* start_flow() without a temperature keeps the loaded target
WStartFlowDefault ==
    /\ Install(start_flow(Cur, NoTemperature), "start_flow_default")
    /\ UNCHANGED wticks

WStopFlow ==
    /\ Install(stop_flow(Cur), "stop_flow")
    /\ UNCHANGED wticks

WSetTemperature(temperature) ==
    /\ Install(set_temperature(Cur, Deg(temperature)), "set_temperature")
    /\ UNCHANGED wticks

WSetFlowRate(flow_rate) ==
    /\ Install(set_flow_rate(Cur, flow_rate), "set_flow_rate")
    /\ UNCHANGED wticks

WEmergencyStop ==
    /\ Install(water_emergency_stop(Cur), "water_emergency_stop")
    /\ UNCHANGED wticks

WaterTick ==
    /\ wticks < MaxWaterTicks
    /\ Install(water_control_loop(Cur), "water_tick")
    /\ wticks' = wticks + 1

NextWater ==
    \/ \E t \in Temps : WStartFlow(t)
    \/ WStartFlowDefault
    \/ WStopFlow
    \/ \E t \in Temps : WSetTemperature(t)
    \/ \E r \in FlowRates : WSetFlowRate(r)
    \/ WEmergencyStop
    \/ WaterTick

SpecWater == InitWater /\ [][NextWater]_vars

----------------------------------------------------------------------------
(* The system with its shutdown *)

\* SmartShowerOS.shutdown is called, once
Shutdown ==
    /\ os.is_running
    /\ Install(Run(Cur, "down", ShutdownSteps), "shutdown")
    /\ UNCHANGED wticks

\* shutdown continues: the player process has exited, or the cancelled
\* control task it awaits has ended
ShutdownResumes ==
    /\ tasks.down # <<>>
    /\ Install(Run([Cur EXCEPT !.tasks.down = <<>>], "down", tasks.down),
               "shutdown_resume")
    /\ UNCHANGED wticks

\* shutdown has completed
ShutdownComplete == ~os.is_running /\ tasks.down = <<>>

\* The system with its shutdown.  Requests are served until the servers
\* are shut down, which is the last step of shutdown; the safety loop runs
\* until SafetyMonitor.shutdown cancels it; the clock does not advance
\* while shutdown is under way.
NextShutdown ==
    \/ ~ShutdownComplete
           /\ \E t \in SessionTemps, a \in AudioSources : StartShower(t, a)
    \/ ~ShutdownComplete /\ PlayerSpawned
    \/ ~ShutdownComplete /\ PlayerSpawnFails
    \/ ~ShutdownComplete /\ StopShower
    \/ ~ShutdownComplete /\ EmergencyStop
    \/ ~ShutdownComplete /\ RequestResumes
    \/ ~ShutdownComplete /\ SensorChanges
    \/ safety.is_running /\ SafetyTick
    \/ safety.is_running /\ LoopResumes
    \/ DoorTimerExpires
    \/ DoorTimerResumes
    \/ os.is_running /\ AdvanceTime
    \/ Shutdown
    \/ ShutdownResumes

SpecShutdown == InitPlain /\ [][NextShutdown]_vars

----------------------------------------------------------------------------
(* Properties *)

Has(f, e) == \E i \in 1..Len(f) : f[i] = e
Count(f, e) == Cardinality({i \in 1..Len(f) : f[i] = e})
Sign(x) == IF x > 0 THEN 1 ELSE IF x < 0 THEN -1 ELSE 0

\* the temperature arithmetic of the model is exact: every error that a
\* loop iteration still divides by ten is a multiple of ten units
ExactStep ==
    (water.target_temperature - water.current_temperature) % 10 = 0
    \/ wticks = MaxWaterTicks

\* C1: whatever the clients do, once the safety loop has run at the current
\* time, water that still flows has been flowing for no longer than the
\* maximum shower duration.
C1_BoundedAutoShutoff ==
    (tasks.ticked /\ water.flow_state # "stopped")
        => now - HistNow.flow_began <= MaxShowerDuration

\* C2: an emergency stop that directly follows an emergency stop fires
\* neither on_flow_stop nor on_emergency_stop again, and the valve stays
\* closed.
C2_EmergencyStopIdempotent ==
    [][ (op = "emergency_stop" /\ op' = "emergency_stop")
            => /\ ~Has(fired', "on_flow_stop")
               /\ ~Has(fired', "on_emergency_stop")
               /\ water'.valve_state = "closed" ]_vars

\* C3: in a session whose door stays closed the door timer fires when the
\* door timeout has passed since it was armed by the later of session start
\* and door closure; on_emergency_stop fires exactly once and the effects of
\* stop_shower follow: the valves are closed and, when stop_shower has
\* completed (at once, or after the wait for the audio player), the session
\* is inactive and the door timer is gone; and the state enters EMERGENCY
\* exactly once: the pass of the safety loop that follows the completed
\* stop_shower does not take it from SAFE to EMERGENCY a second time.
C3_DoorTimeout ==
    /\ [](( safety.shower_start_time # NoTime /\ safety.door_state = "closed")
            => now - Max2(HistNow.close_edge, safety.shower_start_time)
                   <= DoorTimeout)
    /\ [][ ( /\ op' = "door_timeout"
             /\ safety.shower_start_time # NoTime
             /\ safety.door_state = "closed" )
            => /\ now = safety.door_timer.deadline
               /\ Count(fired', "on_emergency_stop") = 1
               /\ Count(fired', "on_flow_stop") = 1
               /\ water'.valve_state = "closed"
               /\ water'.flow_state = "stopped"
               /\ safety'.emergency_stop_active
               /\ safety'.door_timer.state \in {"none", "waiting"}
               /\ safety'.door_timer.state = "none"
                      => /\ ~os'.shower_active
                         /\ safety'.shower_start_time = NoTime
               /\ safety'.door_timer.state = "waiting"
                      => safety'.safety_state = "emergency" ]_vars
    /\ [][ op' = "timer_resume"
            => /\ ~os'.shower_active
               /\ safety'.shower_start_time = NoTime
               /\ safety'.door_timer = NoTimer
               /\ ~Has(fired', "on_emergency_stop") ]_vars
    /\ [][ (op = "timer_resume" /\ op' = "safety_tick")
            => ~( safety.safety_state = "safe"
                  /\ safety'.safety_state = "emergency" ) ]_vars

\* C4: a pass of the safety loop that finds the maximum shower duration
\* exceeded while the door is open, with no leak and no button to act on,
\* calls emergency_stop for the duration: the valves are closed, and when
\* the pass is complete the session is inactive and the state is EMERGENCY.
C4_DurationCap ==
    /\ [][ ( /\ op' = "safety_tick"
             /\ safety.shower_start_time # NoTime
             /\ now - safety.shower_start_time > MaxShowerDuration
             /\ safety.door_sensor_active
             /\ ~leak_triggers(Cur)
             /\ ~safety.emergency_button_pressed )
            => /\ Has(fired', "Maximum shower duration exceeded")
               /\ Count(fired', "on_emergency_stop") = 1
               /\ safety'.emergency_stop_active
               /\ water'.valve_state = "closed"
               /\ water'.flow_state = "stopped"
               /\ tasks'.loop = <<>>
                      => /\ safety'.safety_state = "emergency"
                         /\ ~os'.shower_active ]_vars
    /\ [][ (op' = "loop_resume" /\ tasks'.loop = <<>>
               /\ safety'.emergency_stop_active)
            => safety'.safety_state = "emergency" ]_vars

C4_Witness ==
    /\ op = "safety_tick"
    /\ Has(fired, "Maximum shower duration exceeded")
    /\ ~Has(fired, "Door timeout - Auto-shutoff")
    /\ safety.door_state = "open"
    /\ safety.safety_state = "emergency"
    /\ water.flow_state = "stopped"
    /\ ~os.shower_active

\* C5: the pass of the safety loop that follows the leak sensor becoming
\* active during a session fires on_leak_detected and closes the valves,
\* and when the pass is complete the session is inactive, the leak is
\* recorded and the state is DANGER (EMERGENCY if an emergency stop is
\* active, which takes priority).
C5_LeakScenario ==
    [][ ( /\ op = "simulate_leak"
          /\ os.shower_active
          /\ safety.shower_start_time # NoTime
          /\ op' = "safety_tick" )
        => /\ Has(fired', "on_leak_detected")
           /\ water'.valve_state = "closed"
           /\ water'.flow_state = "stopped"
           /\ safety'.leak_detected
           /\ tasks'.loop = <<>>
                  => /\ ~os'.shower_active
                     /\ safety'.safety_state =
                           IF safety'.emergency_stop_active
                           THEN "emergency" ELSE "danger" ]_vars

\* C6: a door timer that fires its emergency stop in a session whose door
\* was read closed after the session start fires exactly door_timeout
\* after the most recent such reading, whether or not the door was opened
\* and closed again before, fires once, and leaves no sleeping timer.
C6_DoorTimerRace ==
    [][ ( /\ op' = "door_timeout"
          /\ Has(fired', "Door timeout - Auto-shutoff")
          /\ safety.shower_start_time # NoTime
          /\ HistNow.close_edge >= safety.shower_start_time )
        => /\ now = HistNow.close_edge + DoorTimeout
           /\ Count(fired', "Door timeout - Auto-shutoff") = 1
           /\ Count(fired', "on_emergency_stop") = 1
           /\ safety'.door_timer.state \in {"none", "waiting"} ]_vars

C6_Witness ==
    /\ op = "door_timeout"
    /\ Has(fired, "Door timeout - Auto-shutoff")
    /\ hist.reopened
    /\ hist.close_edge # NoTime
    /\ now = hist.close_edge + DoorTimeout
    /\ safety.door_timer.state = "none"

\* C7: start_shower while a session is active is rejected with
\* SessionAlreadyActive and changes neither the flow controller nor the
\* safety monitor: no second on_flow_start, no timer restarted or reset.
C7_DoubleStartRejected ==
    [][ (op' = "start_shower" /\ os.shower_active)
        => /\ Has(fired', "raise SessionAlreadyActive")
           /\ ~Has(fired', "on_flow_start")
           /\ water' = water
           /\ safety' = safety
           /\ os' = os ]_vars

\* C8: after set_temperature(t) or start_flow(t) the target temperature
\* lies within [min_temperature, max_temperature], for every requested t,
\* after any sequence of such calls and for every loaded configuration.
C8_TargetWithinLimits ==
    op \in {"set_temperature", "start_flow"}
        => /\ water.min_temperature <= water.target_temperature
           /\ water.target_temperature <= water.max_temperature

C10_CurrentWithinMax ==
    water.current_temperature <= water.max_temperature

\* C11: in every state another task can observe, a flow state of FLOWING or
\* ADJUSTING implies that the valves are not CLOSED.
C11_FlowImpliesValveOpen ==
    water.flow_state \in {"flowing", "adjusting"}
        => water.valve_state # "closed"

\* water flowing again after the over-temperature check of a loop
\* iteration had stopped the flow
C11_Witness ==
    /\ op \in {"start_flow", "start_flow_default"}
    /\ wticks >= 2
    /\ water.current_temperature > water.max_temperature
    /\ water.flow_state = "adjusting"
    /\ water.valve_state = "open"

\* C12: the mixer position is within [0.0, 1.0] in every reachable state.
C12_MixerWithinRange ==
    /\ 0 <= water.mixer_valve_position
    /\ water.mixer_valve_position <= 100

\* the mixer at an end of its range after the flow was stopped by a loop
\* iteration, and at its middle in a flow that iterations have adjusted
C12_Witness ==
    /\ op = "water_tick"
    /\ wticks >= 2
    /\ \/ Has(fired, "on_flow_stop") /\ water.mixer_valve_position = 0
       \/ Has(fired, "on_temperature_change") /\ water.mixer_valve_position = 50

\* C13: on_emergency_stop fires once per entry into EMERGENCY: a pass of
\* the safety loop that starts in EMERGENCY with the emergency stop in
\* force, for example with the button still pressed, does not fire it
\* again.
C13_EmergencyEdgeTriggered ==
    [][ ( /\ op' = "safety_tick"
          /\ safety.safety_state = "emergency"
          /\ safety.emergency_stop_active )
        => ~Has(fired', "on_emergency_stop") ]_vars

\* C14: once the state is EMERGENCY every later state is EMERGENCY (no
\* operation that clears an emergency exists).
C14_EmergencyTerminal ==
    [][ safety.safety_state = "emergency"
        => safety'.safety_state = "emergency" ]_vars

\* C15: stop_shower with no session active changes nothing and fires
\* nothing; with a session active, when it has completed, flow and audio are
\* stopped, the safety session is stopped and the session is inactive.
C15_StopShowerIdempotent ==
    /\ [][ (op' = "stop_shower" /\ ~os.shower_active)
            => /\ fired' = <<>>
               /\ water' = water
               /\ safety' = safety
               /\ audio' = audio
               /\ os' = os ]_vars
    /\ [][ (op' = "stop_shower" /\ os.shower_active)
            => /\ water'.flow_state = "stopped"
               /\ water'.valve_state = "closed"
               /\ tasks'.reqs = tasks.reqs
                      => /\ audio'.playback_state = "stopped"
                         /\ safety'.shower_start_time = NoTime
                         /\ ~os'.shower_active ]_vars

\* C16: start_shower runs (a) start_flow, (b) start_playback if a source
\* was given, (c) start_shower_session, in this order.  A call whose step
\* (a) fails raises and changes nothing: no flow, no playback, no safety
\* session, no active session.  A call whose step (a) succeeds fires
\* on_flow_start first; the safety session starts and the session becomes
\* active only when step (b) is over, and not at all when step (b) fails.
C16_StartOrder ==
    /\ [][ (op' = "start_shower" /\ Has(fired', "raise TypeError"))
            => /\ fired' = <<"raise TypeError">>
               /\ water' = water
               /\ audio' = audio
               /\ safety' = safety
               /\ os' = os
               /\ tasks' = tasks ]_vars
    /\ [][ (op' = "start_shower" /\ ~Has(fired', "raise TypeError"))
            => /\ Head(fired') = "on_flow_start"
               /\ water'.flow_state = "adjusting"
               /\ \/ /\ fired' = <<"on_flow_start">>
                     /\ tasks'.reqs = tasks.reqs
                     /\ audio' = audio
                     /\ safety'.shower_start_time = now
                     /\ os'.shower_active
                  \/ /\ fired' = <<"on_flow_start">>
                     /\ Len(tasks'.reqs) = Len(tasks.reqs) + 1
                     /\ audio' = audio
                     /\ safety' = safety
                     /\ os' = os
                  \/ /\ fired' = <<"on_flow_start", "raise FileNotFoundError">>
                     /\ tasks'.reqs = tasks.reqs
                     /\ audio' = audio
                     /\ safety' = safety
                     /\ os' = os ]_vars
    /\ [][ op' = "start_shower_resume"
            => /\ fired' = <<"on_playback_start">>
               /\ audio'.playback_state = "loading"
               /\ safety'.shower_start_time = now
               /\ os'.shower_active ]_vars
    /\ [][ op' = "start_shower_fail"
            => /\ fired' = <<"raise OSError">>
               /\ audio' = audio
               /\ safety' = safety
               /\ os' = os ]_vars

\* a start request whose flow step has failed, made while no session is
\* active and no water flows
C16_Witness ==
    /\ op = "start_shower"
    /\ fired = <<"raise TypeError">>
    /\ ~os.shower_active
    /\ safety.shower_start_time = NoTime
    /\ water.flow_state = "stopped"
    /\ tasks.ticked

\* the reasons emergency_stop is called with
Reasons ==
    { "Emergency button pressed", "Maximum shower duration exceeded",
      "Door timeout - Auto-shutoff", "Web interface emergency stop" }

\* the emergency notification whose message carries the reason
NotificationOf(reason) ==
    CASE reason = "Emergency button pressed" ->
             "notify: Emergency button pressed"
      [] reason = "Maximum shower duration exceeded" ->
             "notify: Maximum shower duration exceeded"
      [] reason = "Door timeout - Auto-shutoff" ->
             "notify: Door timeout - Auto-shutoff"
      [] reason = "Web interface emergency stop" ->
             "notify: Web interface emergency stop"

\* C17: an emergency stop hands the notifier a notification that carries
\* the reason of its trigger: a step in which emergency_stop is called with
\* a reason and its handler runs to its end, the door-timer task included,
\* sends the notification of that reason.
C17_NotificationCarriesReason ==
    [][ \A r \in Reasons :
          ( /\ Has(fired', r)
            /\ tasks'.reqs = tasks.reqs
            /\ tasks'.loop = <<>>
            /\ safety'.door_timer.state # "waiting" )
          => Has(fired', NotificationOf(r)) ]_vars

\* C18: on the flow controller, a call of stop_flow or of emergency_stop
\* while the valves are CLOSED changes no state and fires no event.
C18_StopWhileClosedIsNoOp ==
    [][ ( /\ op' \in {"stop_flow", "water_emergency_stop"}
          /\ water.valve_state = "closed" )
        => /\ fired' = <<>>
           /\ water' = water ]_vars

\* C19: while a safety session is running, no step other than one that
\* stops the session changes the time at which the session started.
C19_StartTimeNotReset ==
    [][ ( /\ safety.shower_start_time # NoTime
          /\ safety'.shower_start_time # NoTime
          /\ op' # "advance_time" )
        => safety'.shower_start_time = safety.shower_start_time ]_vars

\* C20: in every state with no active session, and no safety session, no
\* door-timer countdown is armed.
C20_NoDoorTimerWhileIdle ==
    ( /\ ~os.shower_active
      /\ safety.shower_start_time = NoTime )
        => safety.door_timer.state \notin {"sleeping", "running", "waiting"}

\* C21: during a safety session, a pass of the safety loop that reads the
\* door open after closed fires on_door_open once and leaves no door
\* countdown armed; a pass that reads it closed after open fires
\* on_door_close once and leaves a fresh countdown armed.
C21_DoorEdges ==
    /\ [][ ( /\ op' = "safety_tick"
            /\ safety.shower_start_time # NoTime
            /\ safety'.shower_start_time # NoTime
            /\ safety.door_state = "closed"
            /\ safety'.door_state = "open" )
          => /\ Count(fired', "on_door_open") = 1
             /\ safety'.door_timer.state # "sleeping" ]_vars
    /\ [][ ( /\ op' = "safety_tick"
            /\ safety.shower_start_time # NoTime
            /\ safety'.shower_start_time # NoTime
            /\ safety.door_state = "open"
            /\ safety'.door_state = "closed" )
          => /\ Count(fired', "on_door_close") = 1
             /\ safety'.door_timer =
                    [state |-> "sleeping", deadline |-> now + DoorTimeout,
                     k |-> <<>>] ]_vars

\* C22: a door whose state is unknown is not treated as closed: no door
\* countdown is armed while door_state is UNKNOWN, and a pass of the safety
\* loop over an unknown door does not make it CLOSED.
C22_UnknownDoorFailSafe ==
    /\ [][ safety'.door_state = "unknown"
            => safety'.door_timer.state # "sleeping" ]_vars
    /\ [][ (op' = "safety_tick" /\ safety.door_state = "unknown")
            => safety'.door_state # "closed" ]_vars

\* C23: an iteration of the flow control loop that reads a temperature
\* above the maximum leaves the valves closed, the mixer at 0.0 and the flow
\* rate at 0.0, and the stop is made once for the violation: an iteration
\* that finds the flow already stopped after it does not stop it again.
C23_OverTemperatureStopsOnce ==
    /\ [][ ( /\ op' = "water_tick"
            /\ water'.current_temperature > water'.max_temperature )
          => /\ water'.valve_state = "closed"
             /\ water'.flow_state = "stopped"
             /\ water'.mixer_valve_position = 0
             /\ water'.flow_rate = 0 ]_vars
    /\ [][ ( /\ op' = "water_tick"
            /\ op = "water_tick"
            /\ Has(fired, "on_flow_stop")
            /\ water.current_temperature > water.max_temperature )
          => ~Has(fired', "on_flow_stop") ]_vars

\* C24: after set_temperature(t) the target temperature is t clamped to
\* [min_temperature, max_temperature], whatever the target was before.
C24_SetTemperatureRecordsClamped ==
    [][ \A t \in Temps :
          WSetTemperature(t)
            => water'.target_temperature = clamp_temperature(water, Deg(t))
      ]_vars

\* the trigger handlers that are suspended in the wait of stop_playback:
\* a callback of the safety loop, the door-timer task, emergency requests
SuspendedStops ==
    (IF tasks.loop # <<>> THEN 1 ELSE 0)
    + (IF safety.door_timer.state = "waiting" THEN 1 ELSE 0)
    + Cardinality({i \in 1..Len(tasks.reqs) :
                      /\ Head(tasks.reqs[i]) = "stop_playback_rest"
                      /\ Has(tasks.reqs[i], "notify_emergency")})

\* C25: when two triggers overlap, both handlers suspended in stop_shower
\* at the same time and at least one of them an emergency stop, the state
\* in which both have finished is the stopped state: valves CLOSED, flow
\* STOPPED, flow rate 0, session inactive, no door timer armed, safety
\* state EMERGENCY.
C25_ConcurrentTriggersStopped ==
    [][ ( /\ op' \in {"loop_resume", "timer_resume", "request_resume"}
          /\ SuspendedStops' = 0
          /\ safety'.emergency_stop_active
          /\ \/ SuspendedStops = 2
             \/ /\ SuspendedStops = 1
                /\ op \in {"loop_resume", "timer_resume", "request_resume"}
                /\ Has(fired, "on_playback_stop") )
        => /\ water'.valve_state = "closed"
           /\ water'.flow_state = "stopped"
           /\ water'.flow_rate = 0
           /\ ~os'.shower_active
           /\ safety'.door_timer.state \notin {"sleeping", "running", "waiting"}
           /\ safety'.safety_state = "emergency" ]_vars

\* C26: at the end of every pass of the safety loop the safety state is the
\* first match of: EMERGENCY if the emergency stop is latched; else DANGER
\* if the leak flag is set; else WARNING if the door is closed, a session
\* runs and the door timer has completed; else SAFE.  The emergency stop is
\* latched at the end of every pass that began with the button pressed,
\* with the session duration exceeded, or with the latch set (by the door
\* timer, by a request).  A pass that began with a leak and ends without
\* the latch ends in DANGER.
C26_PriorityOrder ==
    /\ [][ (op' \in {"safety_tick", "loop_resume"} /\ tasks'.loop = <<>>)
            => safety'.safety_state =
                 IF safety'.emergency_stop_active THEN "emergency"
                 ELSE IF safety'.leak_detected THEN "danger"
                 ELSE IF /\ safety'.door_state = "closed"
                         /\ safety'.shower_start_time # NoTime
                         /\ safety'.door_timer.state = "done"
                      THEN "warning"
                 ELSE "safe" ]_vars
    /\ [][ ( /\ op' \in {"safety_tick", "loop_resume"}
            /\ tasks'.loop = <<>>
            /\ \/ safety.emergency_button_pressed
               \/ safety.emergency_stop_active
               \/ /\ safety.shower_start_time # NoTime
                  /\ now - safety.shower_start_time > MaxShowerDuration )
          => /\ safety'.emergency_stop_active
             /\ safety'.safety_state = "emergency" ]_vars
    /\ [][ ( /\ op' \in {"safety_tick", "loop_resume"}
            /\ tasks'.loop = <<>>
            /\ ~safety'.emergency_stop_active
            /\ (safety.leak_sensor_active \/ safety.leak_detected) )
          => safety'.safety_state = "danger" ]_vars

\* C27: stop_shower_session, whether or not a door timer is armed and a
\* session runs, leaves no door timer, no session start time and the safety
\* state SAFE (a pass of the safety loop goes on to update the state).
\* After it neither timer fires for the stopped session: the duration
\* emergency is raised only for a running session, the door-timeout
\* emergency only by a timer that was armed since.
C27_StopSessionCancelsTimers ==
    /\ [][ ( /\ op' \in {"stop_shower", "emergency_stop", "request_resume",
                        "door_timeout", "timer_resume"}
            /\ Has(fired', "on_playback_stop") )
          => /\ safety'.door_timer = NoTimer
             /\ safety'.shower_start_time = NoTime
             /\ safety'.safety_state = "safe" ]_vars
    /\ [][ ( /\ op' \in {"safety_tick", "loop_resume"}
            /\ Has(fired', "on_playback_stop") )
          => /\ safety'.door_timer = NoTimer
             /\ safety'.shower_start_time = NoTime ]_vars
    /\ [][ Has(fired', "Maximum shower duration exceeded")
            => safety.shower_start_time # NoTime ]_vars
    /\ [][ Has(fired', "Door timeout - Auto-shutoff")
            => safety.door_timer.state \in {"sleeping", "waiting"} ]_vars

\* a pass of the safety loop that has read the door closed, which arms a
\* door timer, and then ended the session for its duration
C27_Witness ==
    /\ op = "safety_tick"
    /\ Has(fired, "on_door_close")
    /\ Has(fired, "Maximum shower duration exceeded")
    /\ Has(fired, "on_playback_stop")
    /\ safety.door_state = "closed"
    /\ safety.door_timer = NoTimer
    /\ safety.shower_start_time = NoTime

\* C28: at any time at most one door-timer task is pending, the one
\* self.door_timer refers to, which is the one started last: every task
\* that was replaced or stopped has been cancelled.  The door-timeout
\* emergency is raised only by that task, when it wakes at its deadline; a
\* task cancelled while it waits inside its emergency stop does not
\* continue.
C28_CancelledTimersNeverFire ==
    /\ [][ tasks'.timers =
              IF safety'.door_timer.state \in {"sleeping", "running", "waiting"}
              THEN 1 ELSE 0 ]_vars
    /\ [][ Has(fired', "Door timeout - Auto-shutoff")
            => /\ op' = "door_timeout"
               /\ safety.door_timer.state = "sleeping"
               /\ safety.door_timer.deadline <= now
               /\ tasks.timers = 1 ]_vars
    /\ [][ op' = "timer_resume"
            => /\ safety.door_timer.state = "waiting"
               /\ tasks.timers = 1
               /\ ~Has(fired', "on_emergency_stop") ]_vars

\* a pass of the safety loop that has read the door of a running session
\* open: the timer that was pending has been cancelled and the one started
\* in its place is the only one pending
C28_Witness ==
    /\ op = "safety_tick"
    /\ Has(fired, "on_door_open")
    /\ os.shower_active
    /\ safety.shower_start_time # NoTime
    /\ safety.door_timer.state = "sleeping"
    /\ tasks.timers = 1

\* C29: in a pass of the safety loop the sensor reads and the evaluation
\* of the safety state come before the dispatch of callbacks: a pass that
\* is suspended inside a callback has no sensor read and no evaluation
\* left to do, and the safety state it shows is not changed by the rest of
\* the pass.  A pass begins only when the callbacks of the previous one
\* have completed.
C29_TickOrdering ==
    /\ [][ (op' \in {"safety_tick", "loop_resume"} /\ tasks'.loop # <<>>)
            => /\ ~Has(tasks'.loop, "read_leak")
               /\ ~Has(tasks'.loop, "read_button")
               /\ ~Has(tasks'.loop, "check_duration")
               /\ ~Has(tasks'.loop, "update_safety_state") ]_vars
    /\ [][ (op' = "loop_resume" /\ tasks'.loop = <<>>)
            => safety'.safety_state = safety.safety_state ]_vars
    /\ [][ op' = "safety_tick" => tasks.loop = <<>> ]_vars

\* C30: after start_flow the flow state is ADJUSTING; an iteration of the
\* control loop that finds the flow running and the measured temperature
\* settled, within 0.1 degree of the target, leaves the flow state FLOWING;
\* the flow state leaves ADJUSTING and FLOWING only for STOPPED with the
\* valves CLOSED.
C30_FlowLifeCycle ==
    /\ [][ op' \in {"start_flow", "start_flow_default"}
            => water'.flow_state = "adjusting" ]_vars
    /\ [][ ( /\ op' = "water_tick"
            /\ water'.flow_state # "stopped"
            /\ Abs(water'.target_temperature - water'.current_temperature)
                   <= Deg(1) )
          => water'.flow_state = "flowing" ]_vars
    /\ [][ ( /\ water.flow_state \in {"adjusting", "flowing"}
            /\ water'.flow_state \notin {"adjusting", "flowing"} )
          => /\ water'.flow_state = "stopped"
             /\ water'.valve_state = "closed" ]_vars

\* C31: the safety state is WARNING only where the door is closed, a session
\* is active, the door timer task has completed and no emergency stop is
\* latched; and no such state is reachable: a door timer task that has
\* completed is never held while the door is recorded as closed, because a
\* task that wakes up with the door closed latches the emergency stop and
\* every close edge replaces the task
C31_WarningOnlyAfterTimer ==
    /\ safety.safety_state = "warning" =>
           /\ safety.door_state = "closed"
           /\ safety.shower_start_time # NoTime
           /\ safety.door_timer.state = "done"
           /\ ~safety.emergency_stop_active
    /\ ~(/\ safety.door_state = "closed"
         /\ safety.shower_start_time # NoTime
         /\ safety.door_timer.state = "done"
         /\ ~safety.emergency_stop_active)

\* the door timer task has completed during a session with no emergency
\* latched: it woke up while the door was open, which is the one condition
\* of WARNING that is missing
C31_Witness ==
    /\ op = "door_timeout"
    /\ safety.door_timer.state = "done"
    /\ safety.shower_start_time # NoTime
    /\ ~safety.emergency_stop_active
    /\ safety.door_state = "open"

\* the steps of the safety loop and of the door timer task
SafetySteps == {"safety_tick", "loop_resume", "door_timeout", "timer_resume"}

\* C32: a step of the safety loop or of the door timer task in which neither
\* on_emergency_stop nor on_leak_detected is dispatched leaves the whole
\* state of the flow controller as it was, and a step of theirs that does
\* change it is a closure by stop_flow, reached through the coordinator's
\* stop_shower
C32_SafetyStepsFrameWater ==
    [][ op' \in SafetySteps =>
            /\ (~Has(fired', "on_emergency_stop") /\ ~Has(fired', "on_leak_detected"))
                   => water' = water
            /\ water' # water =>
                   /\ Has(fired', "on_flow_stop")
                   /\ water' = stop_flow(Cur).water ]_vars

\* a safety tick has seen the door open during a session with the water
\* running and has reset the door timer, with no dispatch
C32_Witness ==
    /\ op = "safety_tick"
    /\ Has(fired, "on_door_open")
    /\ ~Has(fired, "on_emergency_stop")
    /\ ~Has(fired, "on_leak_detected")
    /\ safety.shower_start_time # NoTime
    /\ safety.door_timer.state = "sleeping"
    /\ water.valve_state = "open"
    /\ water.flow_state # "stopped"

\* the step that has just been taken ended a call of start_shower, which
\* returned or raised
StartShowerFinished ==
    \/ op \in {"start_shower_resume", "start_shower_fail"}
    \/ /\ op = "start_shower"
       /\ \A i \in 1..Len(tasks.reqs) : Head(tasks.reqs[i]) # "start_playback_rest"

\* C33: whenever a call of start_shower has finished, by returning or by
\* raising, and the flow controller is not STOPPED, a safety session is
\* active: a failure of the audio step never leaves the valves open with no
\* duration limit and no door timer
C33_StartedFlowHasSession ==
    (StartShowerFinished /\ water.flow_state # "stopped")
        => /\ safety.shower_start_time # NoTime
           /\ safety.door_timer.state \in {"sleeping", "running", "waiting"}

\* C34: while emergency_stop_active is set no step opens the valves or takes
\* the flow controller out of STOPPED
C34_NoFlowWhileLatched ==
    [][ safety.emergency_stop_active =>
            /\ water.valve_state = "closed" => water'.valve_state = "closed"
            /\ water.flow_state = "stopped" => water'.flow_state = "stopped" ]_vars

\* C35: a pass of the safety loop that finds the leak sensor active while
\* water flows dispatches on_leak_detected and closes the flow, whether or
\* not a leak was detected before
C35_LeakStopsFlowWithinOneTick ==
    [][ (op' = "safety_tick" /\ safety.leak_sensor_active
                             /\ water.flow_state # "stopped")
            => /\ Has(fired', "on_leak_detected")
               /\ water'.flow_state = "stopped"
               /\ water'.valve_state = "closed" ]_vars

\* C36: a door-timeout teardown that is suspended inside stop_shower is
\* resumed by the door timer task and by nothing else: no step of another
\* task takes the continuation away, so that stop_shower finishes and the
\* notification is sent
C36_DoorTimeoutTeardownCompletes ==
    [][ safety.door_timer.state = "waiting" =>
            \/ safety'.door_timer = safety.door_timer
            \/ /\ op' = "timer_resume"
               /\ Has(fired', "notify: Emergency stop activated!")
               /\ ~os'.shower_active
               /\ safety'.shower_start_time = NoTime ]_vars

\* C37: once SmartShowerOS.shutdown has completed the valves are CLOSED and
\* the flow controller is STOPPED, whatever requests were served while
\* shutdown was suspended
C37_ShutdownLeavesWaterOff ==
    ShutdownComplete =>
        /\ water.valve_state = "closed"
        /\ water.flow_state = "stopped"

\* the step that has just been taken ended a call of stop_shower: the rest
\* of stop_playback has run, and stop_shower_session follows it in the same
\* step
StopShowerReturned ==
    /\ op \in {"stop_shower", "emergency_stop", "request_resume", "safety_tick",
               "loop_resume", "door_timeout", "timer_resume"}
    /\ Has(fired, "on_playback_stop")

\* C38: when a call of stop_shower has ended the valves are CLOSED, the flow
\* controller is STOPPED and the flow rate is 0
C38_StopShowerLeavesWaterOff ==
    StopShowerReturned =>
        /\ water.valve_state = "closed"
        /\ water.flow_state = "stopped"
        /\ water.flow_rate = 0

\* C39: in the flow controller a STOPPED flow state and CLOSED valves each
\* go with a flow rate of 0, after any sequence of start_flow, stop_flow,
\* emergency_stop and set_flow_rate
C39_NoFlowRateWhileStopped ==
    /\ water.flow_state = "stopped" => water.flow_rate = 0
    /\ water.valve_state = "closed" => water.flow_rate = 0

====
